---- MODULE Spec2Model ----
(***************************************************************************)
(* Model of crates/ruma-client-api/src/session/login.rs (module v3): the   *)
(* LoginInfo tagged union with its serde codec and Debug rendering, and    *)
(* the login Request / Response bodies.                                    *)
(*                                                                         *)
(* JSON values (serde_json::Value) are records [kind, v]; a JSON object is *)
(* a function from its keys to JSON values.  serde results are records     *)
(* [ok |-> TRUE, val |-> x] and [ok |-> FALSE, err |-> e].                 *)
(***************************************************************************)
EXTENDS Integers, Sequences, FiniteSets, TLC

VARIABLES
    call,           \* the last LoginInfo::new call: its arguments and result
    sent,           \* LoginInfo value built by the caller (NoValue if none)
    json,           \* serde_json::Value handed to LoginInfo::deserialize
    received,       \* Result<LoginInfo, D::Error> of the last deserialize
    reply,          \* serde_json::Value the received value serializes to
    subject,        \* LoginInfo value last rendered with fmt::Debug
    text,           \* the rendering of subject
    request,        \* login Request value
    request_body,   \* JSON body the Request serializes to
    response_json,  \* JSON body handed to the Response deserializer
    response,       \* Result<Response, Error> of the last deserialize / new
    response_body   \* JSON body the Response serializes to

vars == <<call, sent, json, received, reply, subject, text,
          request, request_body, response_json, response, response_body>>

loginVars == <<call, sent, json, received, reply, subject, text>>
requestVars == <<request, request_body>>
responseVars == <<response_json, response, response_body>>

----------------------------------------------------------------------------
(* Bounds of the model: how many distinct strings each pool offers.        *)

NumUsers == 2
NumSecrets == 2
MaxMs == 3

UserPool == <<"cheeky_monkey", "alice", "bob", "carol">>
SecretPool == <<"ilovebananas", "1234567890abcdef", "0xdeadbeef", "hunter2">>

Users == {UserPool[i] : i \in 1..NumUsers}
Secrets == {SecretPool[i] : i \in 1..NumSecrets}
PublicKeys == {"0386837edd"}

----------------------------------------------------------------------------
(* serde_json::Value                                                       *)

JNull == [kind |-> "null"]
JBool(b) == [kind |-> "bool", v |-> b]
JNum(n) == [kind |-> "number", v |-> n]
JStr(s) == [kind |-> "string", v |-> s]
JArr(a) == [kind |-> "array", v |-> a]
JObj(o) == [kind |-> "object", v |-> o]

EmptyMap == [k \in {} |-> JNull]

Keys(val) == IF val.kind = "object" THEN DOMAIN val.v ELSE {}

\* impl Index<&str> for Value: Null unless val is an object holding the key
Index(val, key) == IF key \in Keys(val) THEN val.v[key] ELSE JNull

\* Value::as_str
as_str(val) == IF val.kind = "string" THEN [some |-> TRUE, str |-> val.v]
               ELSE [some |-> FALSE]

Ok(x) == [ok |-> TRUE, val |-> x]
Err(e) == [ok |-> FALSE, err |-> e]

\* de::Error::missing_field / invalid_type / custom
missing_field(f) == [error |-> "missing_field", field |-> f]
invalid_type(f) == [error |-> "invalid_type", field |-> f]
custom(e) == [error |-> "custom", cause |-> e]

\* a required String field of a derived struct
StringField(val, f) ==
    IF f \notin Keys(val) THEN Err(missing_field(f))
    ELSE IF val.v[f].kind # "string" THEN Err(invalid_type(f))
    ELSE Ok(val.v[f].v)

NoValue == [variant |-> "none"]
NoJson == [kind |-> "none"]
NoResult == [ok |-> FALSE, err |-> [error |-> "none"]]
NoText == <<>>
NoCall == [login_type |-> "none"]

----------------------------------------------------------------------------
(* crate::uiaa::UserIdentifier: its wire forms are those of the tests.     *)

UserIdOrLocalpart(user) == [variant |-> "UserIdOrLocalpart", user |-> user]
Email(address) == [variant |-> "Email", address |-> address]

UserIdentifier_serialize(id) ==
    IF id.variant = "UserIdOrLocalpart"
    THEN JObj([k \in {"type", "user"} |->
                 IF k = "type" THEN JStr("m.id.user") ELSE JStr(id.user)])
    ELSE JObj([k \in {"type", "medium", "address"} |->
                 IF k = "type" THEN JStr("m.id.thirdparty")
                 ELSE IF k = "medium" THEN JStr("email")
                 ELSE JStr(id.address)])

UserIdentifier_deserialize(val) ==
    IF val.kind # "object" THEN Err(invalid_type("identifier"))
    ELSE IF Index(val, "type") = JStr("m.id.user")
    THEN (IF StringField(val, "user").ok
          THEN Ok(UserIdOrLocalpart(StringField(val, "user").val))
          ELSE StringField(val, "user"))
    ELSE IF Index(val, "type") = JStr("m.id.thirdparty")
            /\ Index(val, "medium") = JStr("email")
    THEN (IF StringField(val, "address").ok
          THEN Ok(Email(StringField(val, "address").val))
          ELSE StringField(val, "address"))
    ELSE Err(invalid_type("identifier"))

\* a required UserIdentifier field of a derived struct
IdentifierField(val, f) ==
    IF f \notin Keys(val) THEN Err(missing_field(f))
    ELSE UserIdentifier_deserialize(val.v[f])

\* #[derive(Debug)] rendering of a UserIdentifier, as a sequence of tokens
UserIdentifier_fmt(id) ==
    IF id.variant = "UserIdOrLocalpart"
    THEN <<"UserIdOrLocalpart", "(", id.user, ")">>
    ELSE <<"Email", "{", "address", ":", id.address, "}">>

----------------------------------------------------------------------------
(* The payload structs of LoginInfo and their constructors.                *)

Password_new(identifier, password) ==
    [variant |-> "Password", identifier |-> identifier, password |-> password]

Token_new(token) == [variant |-> "Token", token |-> token]

ApplicationService_new(identifier) ==
    [variant |-> "ApplicationService", identifier |-> identifier]

CaminoLoginInfo_new(public_key, signature) ==
    [variant |-> "Camino", public_key |-> public_key, signature |-> signature]

CustomLoginInfo(login_type, extra) ==
    [variant |-> "_Custom", login_type |-> login_type, extra |-> extra]

\* #[derive(Deserialize)] of each struct: unknown keys (the "type" tag among
\* them) are ignored, a required field that is missing or ill-typed is an error.
Password_deserialize(val) ==
    IF val.kind # "object" THEN Err(invalid_type("Password"))
    ELSE IF ~IdentifierField(val, "identifier").ok
    THEN IdentifierField(val, "identifier")
    ELSE IF ~StringField(val, "password").ok
    THEN StringField(val, "password")
    ELSE Ok(Password_new(IdentifierField(val, "identifier").val,
                         StringField(val, "password").val))

Token_deserialize(val) ==
    IF val.kind # "object" THEN Err(invalid_type("Token"))
    ELSE IF ~StringField(val, "token").ok
    THEN StringField(val, "token")
    ELSE Ok(Token_new(StringField(val, "token").val))

ApplicationService_deserialize(val) ==
    IF val.kind # "object" THEN Err(invalid_type("ApplicationService"))
    ELSE IF ~IdentifierField(val, "identifier").ok
    THEN IdentifierField(val, "identifier")
    ELSE Ok(ApplicationService_new(IdentifierField(val, "identifier").val))

CaminoLoginInfo_deserialize(val) ==
    IF val.kind # "object" THEN Err(invalid_type("CaminoLoginInfo"))
    ELSE IF ~StringField(val, "public_key").ok
    THEN StringField(val, "public_key")
    ELSE IF ~StringField(val, "signature").ok
    THEN StringField(val, "signature")
    ELSE Ok(CaminoLoginInfo_new(StringField(val, "public_key").val,
                                StringField(val, "signature").val))

\* extra without #[serde(flatten)]: the other keys are not collected
CustomLoginInfo_deserialize_noflatten(val) ==
    IF val.kind # "object" THEN Err(invalid_type("CustomLoginInfo"))
    ELSE IF ~StringField(val, "type").ok
    THEN StringField(val, "type")
    ELSE Ok(CustomLoginInfo(StringField(val, "type").val, EmptyMap))

\* login_type is the key "type"; extra (#[serde(flatten)]) takes every other key
CustomLoginInfo_deserialize(val) ==
    IF val.kind # "object" THEN Err(invalid_type("CustomLoginInfo"))
    ELSE IF ~StringField(val, "type").ok
    THEN StringField(val, "type")
    ELSE Ok(CustomLoginInfo(StringField(val, "type").val,
                            [k \in Keys(val) \ {"type"} |-> val.v[k]]))

\* fn from_json_value inside impl Deserialize for LoginInfo
from_json_value(res) == IF res.ok THEN res ELSE Err(custom(res.err))

\* the catch-all arm of a derived untagged enum: a known tag whose payload does
\* not parse falls through to the custom variant
LoginInfo_deserialize_fallback(val) ==
    LET login_type == as_str(Index(val, "type"))
        typed == IF login_type.str = "m.login.password" THEN Password_deserialize(val)
                 ELSE IF login_type.str = "m.login.token" THEN Token_deserialize(val)
                 ELSE IF login_type.str = "m.login.application_service"
                 THEN ApplicationService_deserialize(val)
                 ELSE IF login_type.str = "m.login.camino"
                 THEN CaminoLoginInfo_deserialize(val)
                 ELSE CustomLoginInfo_deserialize(val)
    IN  IF ~login_type.some THEN Err(missing_field("type"))
        ELSE IF typed.ok THEN typed
        ELSE from_json_value(CustomLoginInfo_deserialize(val))

\* the tag is not checked before the dispatch: a missing or non-string tag
\* reaches the catch-all arm
LoginInfo_deserialize_unchecked(val) ==
    LET login_type == as_str(Index(val, "type")) IN
    IF ~login_type.some THEN from_json_value(CustomLoginInfo_deserialize(val))
    ELSE IF login_type.str = "m.login.password"
    THEN from_json_value(Password_deserialize(val))
    ELSE IF login_type.str = "m.login.token"
    THEN from_json_value(Token_deserialize(val))
    ELSE IF login_type.str = "m.login.application_service"
    THEN from_json_value(ApplicationService_deserialize(val))
    ELSE IF login_type.str = "m.login.camino"
    THEN from_json_value(CaminoLoginInfo_deserialize(val))
    ELSE from_json_value(CustomLoginInfo_deserialize(val))

\* the tag is matched without regard to case
LoginInfo_deserialize_nocase(val) ==
    LET login_type == as_str(Index(val, "type")) IN
    IF ~login_type.some THEN Err(missing_field("type"))
    ELSE IF login_type.str \in {"m.login.password", "M.LOGIN.PASSWORD"}
    THEN from_json_value(Password_deserialize(val))
    ELSE IF login_type.str = "m.login.token"
    THEN from_json_value(Token_deserialize(val))
    ELSE IF login_type.str = "m.login.application_service"
    THEN from_json_value(ApplicationService_deserialize(val))
    ELSE IF login_type.str = "m.login.camino"
    THEN from_json_value(CaminoLoginInfo_deserialize(val))
    ELSE from_json_value(CustomLoginInfo_deserialize(val))

\* impl<'de> Deserialize<'de> for LoginInfo
LoginInfo_deserialize(val) ==
    LET login_type == as_str(Index(val, "type")) IN
    IF ~login_type.some THEN Err(missing_field("type"))
    ELSE IF login_type.str = "m.login.password"
    THEN from_json_value(Password_deserialize(val))
    ELSE IF login_type.str = "m.login.token"
    THEN from_json_value(Token_deserialize(val))
    ELSE IF login_type.str = "m.login.application_service"
    THEN from_json_value(ApplicationService_deserialize(val))
    ELSE IF login_type.str = "m.login.camino"
    THEN from_json_value(CaminoLoginInfo_deserialize(val))
    ELSE from_json_value(CustomLoginInfo_deserialize(val))

\* a JSON object made of the tag and the struct's own fields
Tagged(tag, fields) == JObj(fields @@ ("type" :> JStr(tag)))

\* the structs without #[serde(tag = "type")]: the untagged enum writes no tag
LoginInfo_serialize_untagged(info) ==
    CASE info.variant = "Password" ->
           JObj(("identifier" :> UserIdentifier_serialize(info.identifier))
                @@ ("password" :> JStr(info.password)))
      [] info.variant = "Token" -> JObj(("token" :> JStr(info.token)))
      [] info.variant = "ApplicationService" ->
           JObj(("identifier" :> UserIdentifier_serialize(info.identifier)))
      [] info.variant = "Camino" ->
           JObj(("public_key" :> JStr(info.public_key))
                @@ ("signature" :> JStr(info.signature)))
      [] info.variant = "_Custom" ->
           JObj(info.extra @@ ("type" :> JStr(info.login_type)))

\* #[derive(Serialize)] #[serde(untagged)] enum LoginInfo: the inner struct's
\* own serialization, each struct writing its #[serde(tag = "type")] first
LoginInfo_serialize(info) ==
    CASE info.variant = "Password" ->
           Tagged("m.login.password",
                  ("identifier" :> UserIdentifier_serialize(info.identifier))
                  @@ ("password" :> JStr(info.password)))
      [] info.variant = "Token" ->
           Tagged("m.login.token", ("token" :> JStr(info.token)))
      [] info.variant = "ApplicationService" ->
           Tagged("m.login.application_service",
                  ("identifier" :> UserIdentifier_serialize(info.identifier)))
      [] info.variant = "Camino" ->
           Tagged("m.login.camino",
                  ("public_key" :> JStr(info.public_key))
                  @@ ("signature" :> JStr(info.signature)))
      [] info.variant = "_Custom" ->
           JObj(info.extra @@ ("type" :> JStr(info.login_type)))

\* how many "type" entries the serializer is handed: the tag of a known
\* struct (none has a field of that name), and for CustomLoginInfo login_type
\* followed by the flattened extra map, which may hold a "type" key of its own
\* (the object of LoginInfo_serialize keeps the one written last)
LoginInfo_type_entries(info) ==
    IF info.variant = "_Custom" /\ "type" \in DOMAIN info.extra THEN 2 ELSE 1

\* impl fmt::Debug for Password / Token / CustomLoginInfo / CaminoLoginInfo and
\* the derived one of ApplicationService; LoginInfo's fmt forwards to them.
\* #[derive(Debug)] on Password: every field is printed
Password_fmt_derived(info) ==
    <<"Password", "{", "identifier", ":">>
    \o UserIdentifier_fmt(info.identifier)
    \o <<",", "password", ":", info.password, "}">>

Password_fmt(info) ==
    <<"Password", "{", "identifier", ":">>
    \o UserIdentifier_fmt(info.identifier) \o <<",", "..", "}">>

Token_fmt(info) == <<"Token", "{", "..", "}">>

ApplicationService_fmt(info) ==
    <<"ApplicationService", "{", "identifier", ":">>
    \o UserIdentifier_fmt(info.identifier) \o <<"}">>

CustomLoginInfo_fmt(info) ==
    <<"CustomLoginInfo", "{", "login_type", ":", info.login_type, ",", "..", "}">>

CaminoLoginInfo_fmt(info) ==
    <<"CaminoLoginInfo", "{", "public_key", ":", info.public_key, ",", "..", "}">>

LoginInfo_fmt(info) ==
    CASE info.variant = "Password" -> Password_fmt(info)
      [] info.variant = "Token" -> Token_fmt(info)
      [] info.variant = "ApplicationService" -> ApplicationService_fmt(info)
      [] info.variant = "_Custom" -> CustomLoginInfo_fmt(info)
      [] info.variant = "Camino" -> CaminoLoginInfo_fmt(info)

\* LoginInfo::new(login_type, data): a known login_type parses data into its
\* variant (the error returned as is), any other one builds the custom variant
LoginInfo_new(login_type, data) ==
    IF login_type = "m.login.password" THEN Password_deserialize(JObj(data))
    ELSE IF login_type = "m.login.token" THEN Token_deserialize(JObj(data))
    ELSE IF login_type = "m.login.application_service"
    THEN ApplicationService_deserialize(JObj(data))
    ELSE IF login_type = "m.login.camino"
    THEN CaminoLoginInfo_deserialize(JObj(data))
    ELSE Ok(CustomLoginInfo(login_type, data))

----------------------------------------------------------------------------
(* The values and the JSON inputs the model draws from.                    *)

KnownTypes == {"m.login.password", "m.login.token",
               "m.login.application_service", "m.login.camino"}
UnknownTypes == {"m.login.dummy", "M.LOGIN.PASSWORD"}

UserIdentifiers == {UserIdOrLocalpart(u) : u \in Users} \cup {Email("hello@example.com")}

Absent == [kind |-> "absent"]

\* what each key of an incoming object may hold: nothing, well-typed values
\* and ill-typed ones
TypeChoices == {Absent, JNull, JNum(1), JBool(TRUE), JObj(EmptyMap), JArr(<<>>)}
               \cup {JStr(t) : t \in KnownTypes \cup UnknownTypes}
IdentifierChoices == {Absent, JNum(7), JObj(("type" :> JStr("m.id.user")))}
                     \cup {UserIdentifier_serialize(i) : i \in UserIdentifiers}
SecretChoices == {Absent, JNum(7)} \cup {JStr(x) : x \in Secrets}
PublicKeyChoices == {Absent} \cup {JStr(x) : x \in PublicKeys}
SessionChoices == {Absent, JNull, JStr("xyz")}

FieldChoices == [type : TypeChoices, identifier : IdentifierChoices,
                 password : SecretChoices, token : SecretChoices,
                 public_key : PublicKeyChoices, signature : SecretChoices,
                 session : SessionChoices]

ToObject(c) == [k \in {f \in DOMAIN c : c[f] # Absent} |-> c[k]]

JsonObjects == {JObj(ToObject(c)) : c \in FieldChoices}
JsonInputs == JsonObjects \cup {JNull, JStr("m.login.token"), JArr(<<>>)}

\* data maps for LoginInfo::new: like the objects above, "type" included
DataMaps == {ToObject(c) : c \in {d \in FieldChoices :
                 /\ d.type \in {Absent, JStr("m.login.token"), JStr("m.login.dummy")}
                 /\ d.session \in {Absent, JNull}
                 /\ d.identifier \in {Absent, UserIdentifier_serialize(UserIdOrLocalpart(UserPool[1]))}}}

----------------------------------------------------------------------------
(* The login-info exchange: a caller builds a value and serializes it, or  *)
(* a JSON value arrives; the receiver deserializes it, may serialize the   *)
(* value again, and either side may render its value for diagnostics.      *)

Init ==
    /\ call = NoCall
    /\ sent = NoValue
    /\ json = NoJson
    /\ received = NoResult
    /\ reply = NoJson
    /\ subject = NoValue
    /\ text = NoText
    /\ request = NoValue
    /\ request_body = NoJson
    /\ response_json = NoJson
    /\ response = NoResult
    /\ response_body = NoJson

\* values are immutable and built once: every exchange starts from scratch
Idle == call = NoCall /\ sent = NoValue /\ json = NoJson

Build(v) ==
    /\ call' = NoCall
    /\ sent' = v
    /\ json' = NoJson
    /\ received' = NoResult
    /\ reply' = NoJson
    /\ subject' = NoValue
    /\ text' = NoText
    /\ UNCHANGED <<requestVars, responseVars>>

NewPassword ==
    /\ Idle
    /\ \E i \in UserIdentifiers, p \in Secrets : Build(Password_new(i, p))

NewToken ==
    /\ Idle
    /\ \E t \in Secrets : Build(Token_new(t))

NewApplicationService ==
    /\ Idle
    /\ \E i \in UserIdentifiers : Build(ApplicationService_new(i))

NewCamino ==
    /\ Idle
    /\ \E k \in PublicKeys, s \in Secrets : Build(CaminoLoginInfo_new(k, s))

\* LoginInfo::new returns the value or the error; only a value can be sent
NewLoginInfo ==
    /\ Idle
    /\ \E t \in KnownTypes \cup UnknownTypes, d \in DataMaps :
        /\ call' = [login_type |-> t, data |-> d, result |-> LoginInfo_new(t, d)]
        /\ sent' = IF LoginInfo_new(t, d).ok THEN LoginInfo_new(t, d).val ELSE NoValue
        /\ UNCHANGED <<json, received, reply, subject, text, requestVars, responseVars>>

Serialize ==
    /\ sent # NoValue
    /\ json = NoJson
    /\ json' = LoginInfo_serialize(sent)
    /\ UNCHANGED <<call, sent, received, reply, subject, text, requestVars, responseVars>>

DeserializeSent ==
    /\ sent # NoValue
    /\ json # NoJson
    /\ received = NoResult
    /\ received' = LoginInfo_deserialize(json)
    /\ UNCHANGED <<call, sent, json, reply, subject, text, requestVars, responseVars>>

DeserializeInput ==
    /\ Idle
    /\ \E j \in JsonInputs :
        /\ sent' = NoValue
        /\ json' = j
        /\ received' = LoginInfo_deserialize(j)
        /\ reply' = NoJson
        /\ subject' = NoValue
        /\ text' = NoText
        /\ UNCHANGED <<call, requestVars, responseVars>>

Reserialize ==
    /\ received.ok
    /\ reply = NoJson
    /\ reply' = LoginInfo_serialize(received.val)
    /\ UNCHANGED <<call, sent, json, received, subject, text, requestVars, responseVars>>

Fmt ==
    \E v \in {sent} \cup (IF received.ok THEN {received.val} ELSE {}) :
        /\ v # NoValue
        /\ text = NoText
        /\ subject' = v
        /\ text' = LoginInfo_fmt(v)
        /\ UNCHANGED <<call, sent, json, received, reply, requestVars, responseVars>>

Next ==
    \/ NewPassword
    \/ NewToken
    \/ NewApplicationService
    \/ NewCamino
    \/ NewLoginInfo
    \/ Serialize
    \/ DeserializeSent
    \/ DeserializeInput
    \/ Reserialize
    \/ Fmt

Spec == Init /\ [][Next]_vars

----------------------------------------------------------------------------
(* The login Request and its JSON body.                                    *)

None == [some |-> FALSE]
Some(x) == [some |-> TRUE, val |-> x]

\* crate::uiaa::AuthData, with the wire forms of the tests: session is an
\* Option that is written as null when it is None
AuthData_serialize(auth) ==
    LET session == IF auth.session.some THEN JStr(auth.session.val) ELSE JNull IN
    CASE auth.variant = "RegistrationToken" ->
           JObj(("type" :> JStr("m.login.registration_token"))
                @@ ("token" :> JStr(auth.token)) @@ ("session" :> session))
      [] auth.variant = "Password" ->
           JObj(("type" :> JStr("m.login.password"))
                @@ ("identifier" :> UserIdentifier_serialize(auth.identifier))
                @@ ("password" :> JStr(auth.password)) @@ ("session" :> session))
      [] auth.variant = "Camino" ->
           JObj(("type" :> JStr("m.login.camino"))
                @@ ("signature" :> JStr(auth.signature)) @@ ("session" :> session))

\* ruma_common::serde::is_default for bool
is_default(b) == b = FALSE

\* struct Request
Request(identifier, auth, device_id, initial_device_display_name, refresh_token) ==
    [identifier |-> identifier, auth |-> auth, device_id |-> device_id,
     initial_device_display_name |-> initial_device_display_name,
     refresh_token |-> refresh_token]

\* Request::new
Request_new(username, auth) ==
    Request(UserIdOrLocalpart(username), Some(auth), None, None, FALSE)

\* a key of a JSON body: present with its value, or left out
Field(key, present, val) == IF present THEN (key :> val) ELSE EmptyMap

\* every Option is written, None as null
Request_serialize_nulls(r) ==
    JObj(("identifier" :> UserIdentifier_serialize(r.identifier))
         @@ ("auth" :> IF r.auth.some THEN AuthData_serialize(r.auth.val) ELSE JNull)
         @@ ("device_id" :> IF r.device_id.some THEN JStr(r.device_id.val) ELSE JNull)
         @@ ("initial_device_display_name" :>
                IF r.initial_device_display_name.some
                THEN JStr(r.initial_device_display_name.val) ELSE JNull)
         @@ Field("refresh_token", ~is_default(r.refresh_token),
                  JBool(r.refresh_token)))

\* refresh_token without skip_serializing_if: the flag is always written
Request_serialize_always(r) ==
    JObj(("identifier" :> UserIdentifier_serialize(r.identifier))
         @@ Field("auth", r.auth.some,
                  IF r.auth.some THEN AuthData_serialize(r.auth.val) ELSE JNull)
         @@ Field("device_id", r.device_id.some,
                  IF r.device_id.some THEN JStr(r.device_id.val) ELSE JNull)
         @@ Field("initial_device_display_name", r.initial_device_display_name.some,
                  IF r.initial_device_display_name.some
                  THEN JStr(r.initial_device_display_name.val) ELSE JNull)
         @@ ("refresh_token" :> JBool(r.refresh_token)))

\* the body of #[request] struct Request, field by field with its serde
\* attributes: skip_serializing_if = "Option::is_none" on the three Options,
\* skip_serializing_if = "is_default" on refresh_token
Request_serialize(r) ==
    JObj(("identifier" :> UserIdentifier_serialize(r.identifier))
         @@ Field("auth", r.auth.some,
                  IF r.auth.some THEN AuthData_serialize(r.auth.val) ELSE JNull)
         @@ Field("device_id", r.device_id.some,
                  IF r.device_id.some THEN JStr(r.device_id.val) ELSE JNull)
         @@ Field("initial_device_display_name", r.initial_device_display_name.some,
                  IF r.initial_device_display_name.some
                  THEN JStr(r.initial_device_display_name.val) ELSE JNull)
         @@ Field("refresh_token", ~is_default(r.refresh_token),
                  JBool(r.refresh_token)))

AuthDatas ==
    {[variant |-> "RegistrationToken", token |-> t, session |-> n] :
        t \in Secrets, n \in {None, Some("xyz")}}
    \cup {[variant |-> "Password", identifier |-> Email("hello@example.com"),
           password |-> p, session |-> None] : p \in Secrets}
    \cup {[variant |-> "Camino", signature |-> g, session |-> None] : g \in Secrets}

DeviceIds == {"GHTYAJCE", "ABCDEFG"}
DisplayNames == {"test"}

Options(S) == {None} \cup {Some(x) : x \in S}

RequestIdle == request = NoValue

RequestNew ==
    /\ RequestIdle
    /\ \E u \in Users, a \in AuthDatas : request' = Request_new(u, a)
    /\ UNCHANGED <<request_body, loginVars, responseVars>>

\* the fields are public: a Request is also written as a struct literal
RequestLiteral ==
    /\ RequestIdle
    /\ \E i \in UserIdentifiers, a \in Options(AuthDatas), d \in Options(DeviceIds),
          n \in Options(DisplayNames), r \in BOOLEAN :
            request' = Request(i, a, d, n, r)
    /\ UNCHANGED <<request_body, loginVars, responseVars>>

RequestSerialize ==
    /\ request # NoValue
    /\ request_body = NoJson
    /\ request_body' = Request_serialize(request)
    /\ UNCHANGED <<request, loginVars, responseVars>>

NextRequest ==
    \/ RequestNew
    \/ RequestLiteral
    \/ RequestSerialize

SpecRequest == Init /\ [][NextRequest]_vars

----------------------------------------------------------------------------
(* The login Response, DiscoveryInfo and their JSON bodies.                *)

\* std::time::Duration::from_millis and Duration::as_millis
Duration(secs, nanos) == [secs |-> secs, nanos |-> nanos]
from_millis(ms) == Duration(ms \div 1000, (ms % 1000) * 1000000)
as_millis(d) == d.secs * 1000 + d.nanos \div 1000000

\* ruma_common::serde::duration::opt_ms: an optional unsigned integer of
\* milliseconds on the wire, an Option<Duration> in the value
opt_ms_deserialize(val) ==
    IF val.kind = "null" THEN Ok(None)
    ELSE IF val.kind = "number" /\ val.v >= 0 THEN Ok(Some(from_millis(val.v)))
    ELSE Err(invalid_type("expires_in_ms"))

opt_ms_serialize(opt) == IF opt.some THEN JNum(as_millis(opt.val)) ELSE JNull

\* an Option<String>-like field: a missing key and null are None
OptionStringField(val, f) ==
    IF f \notin Keys(val) \/ Index(val, f).kind = "null" THEN Ok(None)
    ELSE IF val.v[f].kind # "string" THEN Err(invalid_type(f))
    ELSE Ok(Some(val.v[f].v))

HomeserverInfo_new(base_url) == [base_url |-> base_url]
IdentityServerInfo_new(base_url) == [base_url |-> base_url]

\* struct DiscoveryInfo
DiscoveryInfo(homeserver, identity_server) ==
    [homeserver |-> homeserver, identity_server |-> identity_server]

\* DiscoveryInfo::new
DiscoveryInfo_new(homeserver) == DiscoveryInfo(homeserver, None)

\* #[derive(Serialize)] of HomeserverInfo / IdentityServerInfo
ServerInfo_serialize(info) == JObj(("base_url" :> JStr(info.base_url)))

\* #[derive(Deserialize)] of HomeserverInfo / IdentityServerInfo
ServerInfo_deserialize(val) ==
    IF val.kind # "object" THEN Err(invalid_type("base_url"))
    ELSE IF ~StringField(val, "base_url").ok THEN StringField(val, "base_url")
    ELSE Ok([base_url |-> StringField(val, "base_url").val])

\* #[derive(Serialize)] of DiscoveryInfo: identity_server carries no
\* skip_serializing_if, so None is written as null
DiscoveryInfo_serialize(info) ==
    JObj(("m.homeserver" :> ServerInfo_serialize(info.homeserver))
         @@ ("m.identity_server" :>
                IF info.identity_server.some
                THEN ServerInfo_serialize(info.identity_server.val) ELSE JNull))

\* #[derive(Deserialize)] of DiscoveryInfo
DiscoveryInfo_deserialize(val) ==
    IF val.kind # "object" THEN Err(invalid_type("well_known"))
    ELSE IF "m.homeserver" \notin Keys(val) THEN Err(missing_field("m.homeserver"))
    ELSE IF ~ServerInfo_deserialize(val.v["m.homeserver"]).ok
    THEN ServerInfo_deserialize(val.v["m.homeserver"])
    ELSE IF Index(val, "m.identity_server").kind = "null"
    THEN Ok(DiscoveryInfo(ServerInfo_deserialize(val.v["m.homeserver"]).val, None))
    ELSE IF ~ServerInfo_deserialize(val.v["m.identity_server"]).ok
    THEN ServerInfo_deserialize(val.v["m.identity_server"])
    ELSE Ok(DiscoveryInfo(ServerInfo_deserialize(val.v["m.homeserver"]).val,
                          Some(ServerInfo_deserialize(val.v["m.identity_server"]).val)))

\* struct Response
Response(user_id, access_token, home_server, device_id, well_known, refresh_token, expires_in) ==
    [user_id |-> user_id, access_token |-> access_token,
     home_server |-> home_server, device_id |-> device_id,
     well_known |-> well_known, refresh_token |-> refresh_token,
     expires_in |-> expires_in]

\* Response::new
Response_new(user_id, access_token, device_id) ==
    Response(user_id, access_token, None, device_id, None, None, None)

\* expires_in without skip_serializing_if: opt_ms writes None as null
Response_serialize_null_expiry(r) ==
    JObj(("user_id" :> JStr(r.user_id))
         @@ ("access_token" :> JStr(r.access_token))
         @@ Field("home_server", r.home_server.some,
                  IF r.home_server.some THEN JStr(r.home_server.val) ELSE JNull)
         @@ ("device_id" :> JStr(r.device_id))
         @@ Field("well_known", r.well_known.some,
                  IF r.well_known.some THEN DiscoveryInfo_serialize(r.well_known.val)
                  ELSE JNull)
         @@ Field("refresh_token", r.refresh_token.some,
                  IF r.refresh_token.some THEN JStr(r.refresh_token.val) ELSE JNull)
         @@ ("expires_in_ms" :> opt_ms_serialize(r.expires_in)))

\* home_server marked #[serde(skip_serializing)]: the key is never written
Response_serialize_skip_home_server(r) ==
    JObj(("user_id" :> JStr(r.user_id))
         @@ ("access_token" :> JStr(r.access_token))
         @@ ("device_id" :> JStr(r.device_id))
         @@ Field("well_known", r.well_known.some,
                  IF r.well_known.some THEN DiscoveryInfo_serialize(r.well_known.val)
                  ELSE JNull)
         @@ Field("refresh_token", r.refresh_token.some,
                  IF r.refresh_token.some THEN JStr(r.refresh_token.val) ELSE JNull)
         @@ Field("expires_in_ms", r.expires_in.some, opt_ms_serialize(r.expires_in)))

\* the body of #[response] struct Response, field by field with its serde
\* attributes: every Option has skip_serializing_if = "Option::is_none",
\* expires_in is renamed expires_in_ms and goes through opt_ms
Response_serialize(r) ==
    JObj(("user_id" :> JStr(r.user_id))
         @@ ("access_token" :> JStr(r.access_token))
         @@ Field("home_server", r.home_server.some,
                  IF r.home_server.some THEN JStr(r.home_server.val) ELSE JNull)
         @@ ("device_id" :> JStr(r.device_id))
         @@ Field("well_known", r.well_known.some,
                  IF r.well_known.some THEN DiscoveryInfo_serialize(r.well_known.val)
                  ELSE JNull)
         @@ Field("refresh_token", r.refresh_token.some,
                  IF r.refresh_token.some THEN JStr(r.refresh_token.val) ELSE JNull)
         @@ Field("expires_in_ms", r.expires_in.some, opt_ms_serialize(r.expires_in)))

\* Option<DiscoveryInfo>: a missing key and null are None
WellKnownField(val) ==
    IF Index(val, "well_known").kind = "null" THEN Ok(None)
    ELSE IF DiscoveryInfo_deserialize(val.v["well_known"]).ok
    THEN Ok(Some(DiscoveryInfo_deserialize(val.v["well_known"]).val))
    ELSE DiscoveryInfo_deserialize(val.v["well_known"])

\* expires_in: #[serde(default)] gives None for a missing key, opt_ms reads
\* the key when it is there
ExpiresInField(val) ==
    IF "expires_in_ms" \notin Keys(val) THEN Ok(None)
    ELSE opt_ms_deserialize(val.v["expires_in_ms"])

\* the body of #[response] struct Response, read field by field
Response_deserialize(val) ==
    LET user_id == StringField(val, "user_id")
        access_token == StringField(val, "access_token")
        home_server == OptionStringField(val, "home_server")
        device_id == StringField(val, "device_id")
        well_known == WellKnownField(val)
        refresh_token == OptionStringField(val, "refresh_token")
        expires_in == ExpiresInField(val)
    IN  IF val.kind # "object" THEN Err(invalid_type("Response"))
        ELSE IF ~user_id.ok THEN user_id
        ELSE IF ~access_token.ok THEN access_token
        ELSE IF ~home_server.ok THEN home_server
        ELSE IF ~device_id.ok THEN device_id
        ELSE IF ~well_known.ok THEN well_known
        ELSE IF ~refresh_token.ok THEN refresh_token
        ELSE IF ~expires_in.ok THEN expires_in
        ELSE Ok(Response(user_id.val, access_token.val, home_server.val,
                         device_id.val, well_known.val, refresh_token.val,
                         expires_in.val))

\* lifetimes in milliseconds: the small ones, and some that cross a second
ExpiryMillis == (0..MaxMs) \cup {999, 1000, 1001, 3600000}

UserIds == {"@cheeky_monkey:matrix.org"}
AccessTokens == {"abc123"}
ServerNames == {"matrix.org"}
BaseUrls == {"https://matrix.org"}
RefreshTokens == {"refresh-1"}

DiscoveryInfos ==
    {DiscoveryInfo_new(HomeserverInfo_new(u)) : u \in BaseUrls}
    \cup {DiscoveryInfo(HomeserverInfo_new(u), Some(IdentityServerInfo_new("https://vector.im")))
            : u \in BaseUrls}

\* durations a caller may hold: whole milliseconds and one with a fraction
Durations == {from_millis(n) : n \in ExpiryMillis} \cup {Duration(0, 1500000)}

WellKnownChoices ==
    {Absent, JNull, JNum(7),
     JObj(("m.homeserver" :> ServerInfo_serialize(HomeserverInfo_new("https://matrix.org"))))}
    \cup {DiscoveryInfo_serialize(d) : d \in DiscoveryInfos}

ResponseChoices ==
    [user_id : {Absent, JNum(7)} \cup {JStr(u) : u \in UserIds},
     access_token : {Absent} \cup {JStr(a) : a \in AccessTokens},
     home_server : {Absent, JNull, JNum(7)} \cup {JStr(h) : h \in ServerNames},
     device_id : {JStr(d) : d \in DeviceIds},
     well_known : WellKnownChoices,
     refresh_token : {Absent} \cup {JStr(t) : t \in RefreshTokens},
     expires_in_ms : {Absent, JNull, JNum(-1), JStr("1000")}
                     \cup {JNum(n) : n \in ExpiryMillis}]

ResponseInputs == {JObj(ToObject(c)) : c \in ResponseChoices} \cup {JNull}

ResponseIdle == response = NoResult /\ response_json = NoJson

ResponseNew ==
    /\ ResponseIdle
    /\ \E u \in UserIds, a \in AccessTokens, d \in DeviceIds :
          response' = Ok(Response_new(u, a, d))
    /\ UNCHANGED <<response_json, response_body, loginVars, requestVars>>

\* the fields are public: a server fills the optional ones after new
ResponseLiteral ==
    /\ ResponseIdle
    /\ \E u \in UserIds, a \in AccessTokens, h \in Options(ServerNames),
          d \in DeviceIds, w \in Options(DiscoveryInfos),
          t \in Options(RefreshTokens), e \in Options(Durations) :
            response' = Ok(Response(u, a, h, d, w, t, e))
    /\ UNCHANGED <<response_json, response_body, loginVars, requestVars>>

ResponseDeserialize ==
    /\ ResponseIdle
    /\ \E j \in ResponseInputs :
          /\ response_json' = j
          /\ response' = Response_deserialize(j)
    /\ UNCHANGED <<response_body, loginVars, requestVars>>

ResponseSerialize ==
    /\ response.ok
    /\ response_body = NoJson
    /\ response_body' = Response_serialize(response.val)
    /\ UNCHANGED <<response_json, response, loginVars, requestVars>>

NextResponse ==
    \/ ResponseNew
    \/ ResponseLiteral
    \/ ResponseDeserialize
    \/ ResponseSerialize

SpecResponse == Init /\ [][NextResponse]_vars

----------------------------------------------------------------------------
(* What the claims speak of.                                               *)

KnownVariants == {"Password", "Token", "ApplicationService", "Camino"}

VariantOf(t) ==
    CASE t = "m.login.password" -> "Password"
      [] t = "m.login.token" -> "Token"
      [] t = "m.login.application_service" -> "ApplicationService"
      [] t = "m.login.camino" -> "Camino"
      [] OTHER -> "_Custom"

\* the discriminator of a JSON value, when it has one
HasTag(val) == as_str(Index(val, "type")).some
TagOf(val) == as_str(Index(val, "type")).str

\* the payload table of the data model: the string fields each mechanism
\* requires, and whether it requires an identifier
RequiredStrings(t) ==
    CASE t = "m.login.password" -> {"password"}
      [] t = "m.login.token" -> {"token"}
      [] t = "m.login.application_service" -> {}
      [] t = "m.login.camino" -> {"public_key", "signature"}

RequiresIdentifier(t) == t \in {"m.login.password", "m.login.application_service"}

ValidPayload(t, val) ==
    /\ \A f \in RequiredStrings(t) : Index(val, f).kind = "string"
    /\ RequiresIdentifier(t) =>
         /\ "identifier" \in Keys(val)
         /\ UserIdentifier_deserialize(val.v["identifier"]).ok

\* the payload of a decoded value equals the fields of the object it came from
PayloadMatches(info, val) ==
    /\ \A f \in RequiredStrings(TagOf(val)) : info[f] = val.v[f].v
    /\ RequiresIdentifier(TagOf(val)) =>
         UserIdentifier_deserialize(val.v["identifier"]) = Ok(info.identifier)

Range(seq) == {seq[i] : i \in DOMAIN seq}

\* C1: a known variant that is serialized and deserialized again comes back as
\* the same variant with the same payload fields.
C1_RoundTrip ==
    (sent # NoValue /\ sent.variant \in KnownVariants /\ received # NoResult)
        => /\ json = LoginInfo_serialize(sent)
           /\ received.ok
           /\ received.val.variant = sent.variant
           /\ received.val = sent

C1_Witness ==
    /\ sent = Password_new(Email("hello@example.com"), "ilovebananas")
    /\ received = Ok(sent)

\* C2: an object whose type is a string other than the four known ones always
\* deserializes to the custom variant, and serializing that value gives back
\* an object with exactly the keys and values of the input.
C2_ForwardCompatible ==
    (sent = NoValue /\ received # NoResult /\ HasTag(json)
     /\ TagOf(json) \notin KnownTypes)
        => /\ received.ok
           /\ received.val.variant = "_Custom"
           /\ received.val.login_type = TagOf(json)
           /\ reply # NoJson => reply = json

C2_Witness ==
    /\ sent = NoValue
    /\ HasTag(json)
    /\ TagOf(json) = "m.login.dummy"
    /\ {"password", "session", "identifier"} \subseteq Keys(json)
    /\ json.v["session"] = JNull
    /\ reply = json

\* C3: a known type whose required payload fields are missing or ill-typed is
\* an error; no value, the custom variant included, is produced.
C3_MalformedIsError ==
    (received # NoResult /\ HasTag(json) /\ TagOf(json) \in KnownTypes
     /\ ~ValidPayload(TagOf(json), json))
        => ~received.ok

C3_Witness ==
    /\ HasTag(json)
    /\ TagOf(json) = "m.login.password"
    /\ "password" \notin Keys(json)
    /\ "identifier" \in Keys(json)
    /\ UserIdentifier_deserialize(json.v["identifier"]).ok
    /\ received = Err(custom(missing_field("password")))

\* C4: when the type field is absent or is not a string, deserialization fails
\* with the missing-field error for "type", whatever else the input holds.
C4_MissingDiscriminator ==
    (received # NoResult /\ ~HasTag(json))
        => received = Err(missing_field("type"))

C4_Witness ==
    /\ json.kind = "object"
    /\ "type" \in Keys(json)
    /\ json.v["type"] = JNum(1)
    /\ {"token", "password"} \subseteq Keys(json)
    /\ received = Err(missing_field("type"))

\* the secret field of each variant that carries one
SecretField(info) ==
    CASE info.variant = "Password" -> "password"
      [] info.variant = "Token" -> "token"
      [] info.variant = "Camino" -> "signature"

\* C5: the Debug rendering does not depend on the secret field (any other
\* password, token or signature renders to the same text), and no secret
\* value occurs in the text.
C5_SecretRedacted ==
    (text # NoText /\ subject.variant \in {"Password", "Token", "Camino"})
        => /\ \A s \in Secrets :
                LoginInfo_fmt([subject EXCEPT ![SecretField(subject)] = s]) = text
           /\ subject[SecretField(subject)] \notin Range(text)
           /\ Range(text) \cap Secrets = {}

C5_Witness ==
    /\ subject = Password_new(UserIdOrLocalpart("cheeky_monkey"), "ilovebananas")
    /\ text = <<"Password", "{", "identifier", ":",
                "UserIdOrLocalpart", "(", "cheeky_monkey", ")", ",", "..", "}">>

\* C6: deserialization dispatches on the exact type string: with a valid
\* payload each known type gives its own variant, holding the input's field
\* values, and every other string gives the custom variant.
C6_ExactDispatch ==
    (received # NoResult /\ HasTag(json))
        => /\ (TagOf(json) \in KnownTypes /\ ValidPayload(TagOf(json), json))
                => /\ received.ok
                   /\ received.val.variant = VariantOf(TagOf(json))
                   /\ PayloadMatches(received.val, json)
           /\ TagOf(json) \notin KnownTypes
                => received.ok /\ received.val.variant = "_Custom"
           /\ received.ok
                => \A t \in KnownTypes :
                     (received.val.variant = VariantOf(t)) <=> (TagOf(json) = t)

C6_Witness ==
    /\ json = JObj(("type" :> JStr("m.login.token"))
                   @@ ("token" :> JStr("1234567890abcdef")))
    /\ received = Ok(Token_new("1234567890abcdef"))

OptionalRequestFields == {"auth", "device_id", "initial_device_display_name"}

\* the JSON a present optional field of the request is written as
RequestFieldJson(r, f) ==
    IF f = "auth" THEN AuthData_serialize(r.auth.val) ELSE JStr(r[f].val)

\* C7 as stated: the body of every Request holds the refresh_token key with
\* the value of the flag, be it true or false.
C7_AlwaysSerialized ==
    request_body # NoJson
        => /\ "refresh_token" \in Keys(request_body)
           /\ request_body.v["refresh_token"] = JBool(request.refresh_token)

\* C7 amended: the body holds the refresh_token key exactly when the flag is
\* true, and then with the value true; a false flag is left out.
C7_SerializedIffTrue ==
    request_body # NoJson
        => /\ ("refresh_token" \in Keys(request_body)) <=> (request.refresh_token = TRUE)
           /\ "refresh_token" \in Keys(request_body)
                => request_body.v["refresh_token"] = JBool(TRUE)

C7_Witness ==
    /\ request # NoValue
    /\ request.refresh_token = FALSE
    /\ request_body # NoJson
    /\ "refresh_token" \notin Keys(request_body)

\* C8: the body holds auth, device_id and initial_device_display_name exactly
\* when the field is present, never as null and with the field's own value,
\* and it always holds identifier.
C8_OptionalOmitted ==
    request_body # NoJson
        => /\ "identifier" \in Keys(request_body)
           /\ request_body.v["identifier"] = UserIdentifier_serialize(request.identifier)
           /\ \A f \in OptionalRequestFields :
                /\ (f \in Keys(request_body)) <=> request[f].some
                /\ f \in Keys(request_body)
                     => /\ request_body.v[f] # JNull
                        /\ request_body.v[f] = RequestFieldJson(request, f)

C8_Witness ==
    /\ request # NoValue
    /\ request.auth.some
    /\ ~request.device_id.some
    /\ request.initial_device_display_name = Some("test")
    /\ request_body # NoJson
    /\ Keys(request_body) = {"identifier", "auth", "initial_device_display_name"}

\* the response body, but for the key f, is one that deserializes
WellFormedBut(val, f) ==
    /\ val.kind = "object"
    /\ StringField(val, "user_id").ok
    /\ StringField(val, "access_token").ok
    /\ StringField(val, "device_id").ok
    /\ f = "home_server" \/ OptionStringField(val, "home_server").ok
    /\ WellKnownField(val).ok
    /\ OptionStringField(val, "refresh_token").ok
    /\ f = "expires_in_ms" \/ ExpiresInField(val).ok

\* C9: a body without expires_in_ms deserializes to no expiry, a Response
\* without expiry serializes without the expires_in_ms key (never null), and
\* a body with expires_in_ms = n deserializes to a duration of n milliseconds
\* that serializes to expires_in_ms = n again.
C9_ExpiryRoundTrip ==
    /\ (response_json # NoJson /\ WellFormedBut(response_json, "expires_in_ms")
        /\ "expires_in_ms" \notin Keys(response_json))
          => response.ok /\ response.val.expires_in = None
    /\ (response_json # NoJson /\ WellFormedBut(response_json, "expires_in_ms")
        /\ Index(response_json, "expires_in_ms").kind = "number"
        /\ Index(response_json, "expires_in_ms").v >= 0)
          => /\ response.ok
             /\ response.val.expires_in.some
             /\ as_millis(response.val.expires_in.val)
                  = response_json.v["expires_in_ms"].v
             /\ response.val.expires_in.val.nanos % 1000000 = 0
             /\ response_body # NoJson
                  => Index(response_body, "expires_in_ms")
                       = response_json.v["expires_in_ms"]
    /\ (response.ok /\ response_body # NoJson)
          => /\ ("expires_in_ms" \in Keys(response_body)) <=> response.val.expires_in.some
             /\ "expires_in_ms" \in Keys(response_body)
                  => response_body.v["expires_in_ms"].kind = "number"

C9_Witness ==
    /\ response_json # NoJson
    /\ Index(response_json, "expires_in_ms") = JNum(1001)
    /\ response.ok
    /\ response.val.expires_in = Some(Duration(1, 1000000))
    /\ response_body # NoJson
    /\ Index(response_body, "expires_in_ms") = JNum(1001)

C9_WitnessAbsent ==
    /\ response_json # NoJson
    /\ "expires_in_ms" \notin Keys(response_json)
    /\ response.ok
    /\ response.val.expires_in = None
    /\ response_body # NoJson
    /\ "expires_in_ms" \notin Keys(response_body)

\* C10 as stated: a body carrying the legacy home_server deserializes without
\* error, and no serialized Response holds the home_server key, the one
\* deserialized from such a body included.
C10_NeverEmitted ==
    /\ (response_json # NoJson /\ WellFormedBut(response_json, "home_server")
        /\ Index(response_json, "home_server").kind = "string")
          => response.ok
    /\ response_body # NoJson => "home_server" \notin Keys(response_body)

\* C10 amended: a body carrying a home_server string deserializes without
\* error and keeps it; a serialized Response holds the home_server key exactly
\* when its home_server is present, with that value: never for a Response
\* made by Response::new, again for one deserialized from a body carrying it.
C10_EmittedIffPresent ==
    /\ (response_json # NoJson /\ WellFormedBut(response_json, "home_server")
        /\ Index(response_json, "home_server").kind = "string")
          => /\ response.ok
             /\ response.val.home_server = Some(response_json.v["home_server"].v)
    /\ (response.ok /\ response_body # NoJson)
          => /\ ("home_server" \in Keys(response_body)) <=> response.val.home_server.some
             /\ response.val.home_server.some
                  => response_body.v["home_server"] = JStr(response.val.home_server.val)
             /\ (\E u \in UserIds, a \in AccessTokens, d \in DeviceIds :
                    response.val = Response_new(u, a, d))
                  => "home_server" \notin Keys(response_body)

C10_Witness ==
    /\ response_json # NoJson
    /\ Index(response_json, "home_server") = JStr("matrix.org")
    /\ response.ok
    /\ response_body # NoJson
    /\ Index(response_body, "home_server") = JStr("matrix.org")

\* C11: a serialized DiscoveryInfo always holds m.homeserver, and holds the
\* m.identity_server key exactly when identity_server is present, then with
\* its base_url; an absent identity_server (DiscoveryInfo::new) leaves the
\* key out rather than writing null.
C11_IdentityServerOmitted ==
    (response.ok /\ response.val.well_known.some /\ response_body # NoJson)
        => LET info == response.val.well_known.val
               wire == response_body.v["well_known"]
           IN  /\ "m.homeserver" \in Keys(wire)
               /\ wire.v["m.homeserver"] = ServerInfo_serialize(info.homeserver)
               /\ ("m.identity_server" \in Keys(wire)) <=> info.identity_server.some
               /\ "m.identity_server" \in Keys(wire)
                    => /\ wire.v["m.identity_server"] # JNull
                       /\ wire.v["m.identity_server"]
                            = ServerInfo_serialize(info.identity_server.val)

\* the discriminator of a value's variant: the tag of a known variant, the
\* login_type of the custom one
Discriminator(info) ==
    CASE info.variant = "Password" -> "m.login.password"
      [] info.variant = "Token" -> "m.login.token"
      [] info.variant = "ApplicationService" -> "m.login.application_service"
      [] info.variant = "Camino" -> "m.login.camino"
      [] info.variant = "_Custom" -> info.login_type

\* a value serializes to an object with one type field, its discriminator
ConsistentOnWire(info, wire) ==
    /\ LoginInfo_type_entries(info) = 1
    /\ "type" \in Keys(wire)
    /\ wire.v["type"] = JStr(Discriminator(info))

\* C12: every value obtained from deserialization or from LoginInfo::new is
\* the custom variant only if its discriminator is none of the four known
\* strings; LoginInfo::new fails only for a known login_type whose data does
\* not fit; and the value serializes to an object whose single type field is
\* the discriminator of its variant (for the custom variant, the login_type
\* it was built with).
C12_DiscriminatorConsistent ==
    /\ (sent # NoValue /\ sent.variant = "_Custom")
          => sent.login_type \notin KnownTypes
    /\ (received.ok /\ received.val.variant = "_Custom")
          => received.val.login_type \notin KnownTypes
    /\ (call # NoCall /\ ~call.result.ok)
          => /\ call.login_type \in KnownTypes
             /\ ~ValidPayload(call.login_type, JObj(call.data))
    /\ (call # NoCall /\ call.result.ok)
          => Discriminator(call.result.val) = call.login_type
    /\ (sent # NoValue /\ json # NoJson) => ConsistentOnWire(sent, json)
    /\ (received.ok /\ reply # NoJson) => ConsistentOnWire(received.val, reply)

====
